---- MODULE Spec2Model ----
(***************************************************************************)
(* Model of upcomingMatches.py: the buzz score and the label classifier    *)
(* of a Match, and the cached, rate-limited data acquisition layer         *)
(* (api_request, the st.cache_data wrapped fetch functions and             *)
(* compute_team_form).                                                     *)
(*                                                                         *)
(* Time is counted in half seconds, so that REQUEST_DELAY = 6.5 s is the   *)
(* integer 13.  The float arithmetic of the buzz score is modelled by      *)
(* exact fractions <<numerator, denominator>>.                             *)
(***************************************************************************)
EXTENDS Integers, Sequences, FiniteSets, TLC

\* ---------------------------------------------------------------- bounds
MaxTeams == 20      \* largest league size drawn for a Match
MaxPoints == 8      \* largest points value drawn for a Team
MaxGoals == 1       \* largest final score drawn for a Match
MaxRows == 3        \* most rows of an upstream standings table
MaxLeague == 3      \* largest configured league size of a standings fetch
MaxStep == 1        \* largest points gap between neighbours of the table
MaxFixtures == 3    \* most fixtures of one upstream matchday answer
NumTeams == 3       \* teams of the standings whose form is looked up
MaxMatchday == 2    \* matchdays whose fixtures are fetched
NumBodies == 2      \* versions of the data the upstream serves in one run
MaxSent == 12       \* most requests recorded inside one rate window
MaxFlakySent == 6   \* the same, once the upstream has given a non-200 answer
MaxFaults == 2      \* most non-200 answers of the upstream in one run
MaxElapsed == 175   \* longest time followed between two long idle periods

\* ------------------------------------------------------ program constants
TITLE_RACE_MAX_POS == 8
RELEGATION_MIN_POS == 13
CLOSE_MATCH_DISTANCE == 5
CLOSE_MATCH_POINTS == 7
UPSET_DISTANCE == 10
RELEGATION_REF_TEAMS == 18

\* rate limiting and caching, in half seconds
REQUEST_DELAY == 13         \* 6.5 s
DEFAULT_RESET == 60         \* seconds, default of the X-RequestCounter-Reset header
CACHE_TTL == 12000          \* ttl=6000 s
RATE_WINDOW == 120          \* one minute
RATE_CEILING == 10          \* free tier = 10 requests/minute

\* scoring and labels
VARIABLES match, requested, buzzOut, labelsOut, raised
\* standings and fixtures
VARIABLES stage, league_size, table, teams, matches_data, fixtures
\* data acquisition
VARIABLES pc, upstream, sent, cache, elapsed, call, prev, formPos, pass, form, faults

matchVars == <<match, requested, buzzOut, labelsOut, raised>>
fixVars == <<stage, league_size, table, teams, matches_data, fixtures>>
netVars == <<pc, upstream, sent, cache, elapsed, call, prev, formPos, pass, form, faults>>
vars == <<match, requested, buzzOut, labelsOut, raised,
          stage, league_size, table, teams, matches_data, fixtures,
          pc, upstream, sent, cache, elapsed, call, prev, formPos, pass, form, faults>>

\* ------------------------------------------------------------- helpers
Abs(x) == IF x < 0 THEN -x ELSE x
Min(a, b) == IF a < b THEN a ELSE b
Max(a, b) == IF a > b THEN a ELSE b

\* ------------------------------------------------------------ Team, Match
Team(position, points, num_teams) ==
    [position |-> position, points |-> points, num_teams |-> num_teams]

buzz_score(team) == team.num_teams - team.position

num_teams(m) == m.home.num_teams

base_score(m) == buzz_score(m.home) + buzz_score(m.away)

position_distance(m) == Abs(m.home.position - m.away.position)

points_distance(m) == Abs(m.home.points - m.away.points)

\* A float result is a fraction <<n, d>> with d > 0; a division by zero is
\* the ZeroDivisionError Python raises.
ZeroDivisionError == "ZeroDivisionError"

closeness_bonus(m) ==
    LET max_distance == num_teams(m) - 1
    IN  IF max_distance = 0
        THEN ZeroDivisionError
        ELSE <<max_distance + (max_distance - position_distance(m)), max_distance>>

max_buzz_NoDouble(m) == 2 * (num_teams(m) - 1)

max_buzz(m) == 4 * (num_teams(m) - 1)

buzz_raw(m) ==
    LET c == closeness_bonus(m)
    IN  IF c = ZeroDivisionError
        THEN ZeroDivisionError
        ELSE <<base_score(m) * c[1], c[2]>>

buzz(m) ==
    LET r == buzz_raw(m)
    IN  IF r = ZeroDivisionError
        THEN ZeroDivisionError
        ELSE IF max_buzz(m) = 0
             THEN ZeroDivisionError
             ELSE <<r[1] * 100, r[2] * max_buzz(m)>>

titan_slayed_DrawCounts(m) ==
    IF ~m.is_finished
    THEN FALSE
    ELSE LET favorite_score == IF m.home.position < m.away.position
                               THEN m.home_score ELSE m.away_score
             underdog_score == IF m.home.position < m.away.position
                               THEN m.away_score ELSE m.home_score
         IN  underdog_score >= favorite_score /\ position_distance(m) >= UPSET_DISTANCE

titan_slayed(m) ==
    IF ~m.is_finished
    THEN FALSE
    ELSE LET favorite_score == IF m.home.position < m.away.position
                               THEN m.home_score ELSE m.away_score
             underdog_score == IF m.home.position < m.away.position
                               THEN m.away_score ELSE m.home_score
         IN  underdog_score > favorite_score /\ position_distance(m) >= UPSET_DISTANCE

relegation_min_pos(m) == RELEGATION_MIN_POS + (num_teams(m) - RELEGATION_REF_TEAMS)

TITAN == "TITAN SLAYED"
TITLE == "Title Race"
RELEGATION == "Relegation Battle"
H2H == "Head-to-Head"
UPSET == "Upset Potential"

\* the list Match.labels appends to, in its fixed order
LabelList(titan, title, relegation, close, upset) ==
    (IF titan THEN <<TITAN>> ELSE <<>>)
    \o (IF title THEN <<TITLE>> ELSE <<>>)
    \o (IF relegation THEN <<RELEGATION>> ELSE <<>>)
    \o (IF close THEN <<H2H>> ELSE <<>>)
    \o (IF upset THEN <<UPSET>> ELSE <<>>)

\* labels with the title race test on the better of the two positions
labels_TitleOnBetter(m) ==
    LET highest_pos == Min(m.home.position, m.away.position)
        lowest_pos == Max(m.home.position, m.away.position)
    IN  LabelList(titan_slayed(m),
                  highest_pos <= TITLE_RACE_MAX_POS
                      /\ position_distance(m) <= CLOSE_MATCH_DISTANCE,
                  highest_pos >= relegation_min_pos(m)
                      /\ position_distance(m) <= CLOSE_MATCH_DISTANCE,
                  points_distance(m) <= CLOSE_MATCH_POINTS,
                  position_distance(m) >= UPSET_DISTANCE)

\* labels with the relegation test on the worse of the two positions
labels_RelegationOnWorse(m) ==
    LET highest_pos == Min(m.home.position, m.away.position)
        lowest_pos == Max(m.home.position, m.away.position)
    IN  LabelList(titan_slayed(m),
                  lowest_pos <= TITLE_RACE_MAX_POS
                      /\ position_distance(m) <= CLOSE_MATCH_DISTANCE,
                  lowest_pos >= relegation_min_pos(m)
                      /\ position_distance(m) <= CLOSE_MATCH_DISTANCE,
                  points_distance(m) <= CLOSE_MATCH_POINTS,
                  position_distance(m) >= UPSET_DISTANCE)

\* labels with the title race test without the distance condition
labels_TitleAnyDistance(m) ==
    LET highest_pos == Min(m.home.position, m.away.position)
        lowest_pos == Max(m.home.position, m.away.position)
    IN  LabelList(titan_slayed(m),
                  highest_pos <= TITLE_RACE_MAX_POS,
                  highest_pos >= relegation_min_pos(m)
                      /\ position_distance(m) <= CLOSE_MATCH_DISTANCE,
                  points_distance(m) <= CLOSE_MATCH_POINTS,
                  position_distance(m) >= UPSET_DISTANCE)

labels(m) ==
    LET highest_pos == Min(m.home.position, m.away.position)
        lowest_pos == Max(m.home.position, m.away.position)
    IN  LabelList(titan_slayed(m),
                  lowest_pos <= TITLE_RACE_MAX_POS
                      /\ position_distance(m) <= CLOSE_MATCH_DISTANCE,
                  highest_pos >= relegation_min_pos(m)
                      /\ position_distance(m) <= CLOSE_MATCH_DISTANCE,
                  points_distance(m) <= CLOSE_MATCH_POINTS,
                  position_distance(m) >= UPSET_DISTANCE)

\* --------------------------------------------------------------- upstream
Teams == 1..NumTeams

\* the parameter signatures of the cached functions (one competition)
StandingsKey == <<"standings", 0>>
MatchdayKey == <<"matchday", 0>>
MatchesKey(matchday) == <<"matches", matchday>>
FormKey(team_id) == <<"form", team_id>>
Keys == {StandingsKey, MatchdayKey}
        \cup { MatchesKey(d) : d \in 1..MaxMatchday }
        \cup { FormKey(t) : t \in Teams }

NoHeader == -1
None == -1
Bodies == 1..NumBodies

\* what requests.get yields: a response with a status code, or an exception
Response(exc, status, reset, body) ==
    [exc |-> exc, status |-> status, reset |-> reset, body |-> body]
NoResponse == Response("unsent", 0, NoHeader, 0)
\* upstream: the version of the data the API serves at the moment
Responses ==
    { Response("none", 200, NoHeader, upstream) }
    \cup { Response("none", 429, h, 0) : h \in {NoHeader, 13} }
    \cup { Response("none", 404, NoHeader, 0), Response("none", 500, NoHeader, 0),
           Response("Timeout", 0, NoHeader, 0),
           Response("RequestException", 0, NoHeader, 0) }

IsFault(r) == r.exc # "none" \/ r.status # 200

\* the finished matches the upstream lists for a team, against two opponents
\* of its own: three in version 1 of the data; six in the later versions, the
\* first of them without a full time score
RawMatch(home_id, away_id, home_goals, away_goals) ==
    [home_id |-> home_id, away_id |-> away_id,
     home_goals |-> home_goals, away_goals |-> away_goals]
RawMatches(body, team_id) ==
    LET a == 10 + team_id
        b == 20 + team_id
    IN  IF body = 1
        THEN << RawMatch(team_id, a, 2, 1), RawMatch(a, team_id, 2, 1),
                RawMatch(team_id, b, 1, 1) >>
        ELSE << RawMatch(team_id, a, None, None), RawMatch(a, team_id, 0, 3),
                RawMatch(team_id, b, 0, 1), RawMatch(b, team_id, 2, 2),
                RawMatch(team_id, a, 1, 0), RawMatch(b, team_id, 0, 0) >>

\* ------------------------------------------------------------- api_request
\* retry without the wait for the reset of the request counter
api_request_NoWait(r1, r2) ==
    IF r1.exc # "none"
    THEN [sends |-> 1, backoff |-> 0, raised |-> TRUE, body |-> 0]
    ELSE IF r1.status = 429
         THEN IF r2.exc # "none" \/ r2.status # 200
              THEN [sends |-> 2, backoff |-> 0, raised |-> TRUE, body |-> 0]
              ELSE [sends |-> 2, backoff |-> 0, raised |-> FALSE, body |-> r2.body]
         ELSE IF r1.status # 200
              THEN [sends |-> 1, backoff |-> 0, raised |-> TRUE, body |-> 0]
              ELSE [sends |-> 1, backoff |-> 0, raised |-> FALSE, body |-> r1.body]

\* r1 is the answer to the first requests.get, r2 the answer to the second
\* one, if it is sent.  sends: the requests sent; backoff: the time slept
\* between them; raised: an Exception left api_request; body: response.json().
api_request(r1, r2) ==
    IF r1.exc # "none"
    THEN [sends |-> 1, backoff |-> 0, raised |-> TRUE, body |-> 0]
    ELSE IF r1.status = 429
         THEN LET retry_after == IF r1.reset = NoHeader THEN DEFAULT_RESET ELSE r1.reset
              IN  IF r2.exc # "none" \/ r2.status # 200
                  THEN [sends |-> 2, backoff |-> 2 * retry_after, raised |-> TRUE, body |-> 0]
                  ELSE [sends |-> 2, backoff |-> 2 * retry_after, raised |-> FALSE,
                        body |-> r2.body]
         ELSE IF r1.status # 200
              THEN [sends |-> 1, backoff |-> 0, raised |-> TRUE, body |-> 0]
              ELSE [sends |-> 1, backoff |-> 0, raised |-> FALSE, body |-> r1.body]

\* --------------------------------------------------- clock, recorder, cache
\* sent: the ages of the requests sent less than RATE_WINDOW ago, oldest first
AgeSent(log, d) ==
    SelectSeq([i \in 1..Len(log) |-> log[i] + d], LAMBDA a : a < RATE_WINDOW)

\* the recorder after one api_request that starts after a wait of presleep
Record(log, presleep, res) ==
    LET first == Append(AgeSent(log, presleep), 0)
    IN  IF res.sends = 2 THEN Append(AgeSent(first, res.backoff), 0) ELSE first

\* cache: per parameter signature the memoized return value and its age; an
\* entry is dropped when its age reaches the time-to-live
NoEntry == [live |-> FALSE, val |-> 0, body |-> 0, age |-> 0]
\* the empty list of a failed lookup is not kept
Entry_SkipFailed(val, body) ==
    IF body = 0 THEN [live |-> FALSE, val |-> 0, body |-> 0, age |-> 0]
    ELSE [live |-> TRUE, val |-> val, body |-> body, age |-> 0]

\* a return value that is not kept
Entry_NotKept(val, body) == [live |-> FALSE, val |-> 0, body |-> 0, age |-> 0]

Entry(val, body) == [live |-> TRUE, val |-> val, body |-> body, age |-> 0]

AgeCache(c, d) ==
    [k \in Keys |-> IF c[k].live /\ c[k].age + d < CACHE_TTL
                    THEN [c[k] EXCEPT !.age = @ + d]
                    ELSE NoEntry]

\* call: the last call of a cached function: its signature, whether it was
\* answered from the cache, the requests it sent, the time it blocked, what it
\* returned (or that it raised) and the answers api_request saw; NoCall after
\* a cache clear or when the time-to-live has passed since
NoKey == <<"none", 0>>
NoCall ==
    [key |-> NoKey, hit |-> FALSE, sends |-> 0, slept |-> 0, backoff |-> 0,
     raised |-> FALSE, api_raised |-> FALSE, out |-> 0,
     first |-> NoResponse, second |-> NoResponse]

\* the answers the upstream may give to one api_request
Answers ==
    { <<r1, r2>> \in Responses \X (Responses \cup {NoResponse}) :
        /\ (r2 # NoResponse) <=> (r1.exc = "none" /\ r1.status = 429)
        /\ faults + (IF IsFault(r1) THEN 1 ELSE 0)
                  + (IF r2 # NoResponse /\ IsFault(r2) THEN 1 ELSE 0) <= MaxFaults }

CountFaults(r1, r2) ==
    faults + (IF IsFault(r1) THEN 1 ELSE 0)
           + (IF r2 # NoResponse /\ IsFault(r2) THEN 1 ELSE 0)

\* the bounds leave room for the requests and the waits of one api_request
HasRoom(presleep, res, newFaults) ==
    /\ Len(sent) + 2 <= (IF newFaults = 0 THEN MaxSent ELSE MaxFlakySent)
    /\ elapsed + presleep + res.backoff <= MaxElapsed

\* pass: for each team the body its form of this pass was built from, 0 for a
\* failed lookup, Pending before its lookup
Pending == -1

\* prev: per parameter signature, what the previous call with it did, while
\* no cache clear and less than the time-to-live lie between
NoPrev == [done |-> FALSE, raised |-> FALSE, out |-> 0, sends |-> 0]
Summary(c) == [done |-> TRUE, raised |-> c.raised, out |-> c.out, sends |-> c.sends]

\* ---------------------------------------------------------- st.cache_data
\* a function under @st.cache_data(ttl=6000) that calls api_request and
\* returns part of the answer: a live entry is returned as it is; otherwise
\* the function runs, and its return value is stored unless it raised
cache_data_net(k) ==
    /\ IF cache[k].live
       THEN /\ call' = [NoCall EXCEPT !.key = k, !.hit = TRUE, !.out = cache[k].val]
            /\ UNCHANGED <<sent, cache, elapsed, faults>>
       ELSE \E a \in Answers :
                 LET res == api_request(a[1], a[2])
                 IN  /\ HasRoom(0, res, CountFaults(a[1], a[2]))
                     /\ sent' = Record(sent, 0, res)
                     /\ cache' = [AgeCache(cache, res.backoff) EXCEPT
                                    ![k] = IF res.raised THEN NoEntry
                                           ELSE Entry(res.body, res.body)]
                     /\ elapsed' = elapsed + res.backoff
                     /\ faults' = CountFaults(a[1], a[2])
                     /\ call' = [NoCall EXCEPT
                                   !.key = k, !.sends = res.sends,
                                   !.slept = res.backoff, !.backoff = res.backoff,
                                   !.raised = res.raised, !.api_raised = res.raised,
                                   !.out = IF res.raised THEN 0 ELSE res.body,
                                   !.first = a[1], !.second = a[2]]
    /\ prev' = [prev EXCEPT ![k] = Summary(call')]
    /\ UNCHANGED upstream

cache_data(k) ==
    /\ cache_data_net(k)
    /\ UNCHANGED <<formPos, pass, form>>
    /\ UNCHANGED <<matchVars, fixVars>>

\* the script runs from the top: fetch_standings; an error stops the run
fetch_standings_cached ==
    /\ pc = "standings"
    /\ cache_data(StandingsKey)
    /\ pc' = IF call'.raised THEN "standings" ELSE "matchday"

fetch_current_matchday ==
    /\ pc = "matchday"
    /\ cache_data(MatchdayKey)
    /\ pc' = IF call'.raised THEN "standings" ELSE "sidebar"

\* fetch_matches for the selected matchday, with or without the form pass
\* before it; the run ends here, and with it the teams of this run
fetch_matches_cached(matchday) ==
    /\ pc \in {"sidebar", "matches"}
    /\ cache_data_net(MatchesKey(matchday))
    /\ pc' = "standings"
    /\ formPos' = 0
    /\ form' = [t \in Teams |-> <<>>]
    /\ pass' = [t \in Teams |-> Pending]
    /\ UNCHANGED <<matchVars, fixVars>>

\* ------------------------------------------------- fetch_team_form_cached
FormMatch(raw, team_id) ==
    LET is_home == raw.home_id = team_id
        goals_for == IF is_home THEN raw.home_goals ELSE raw.away_goals
        goals_against == IF is_home THEN raw.away_goals ELSE raw.home_goals
    IN  [result |-> IF goals_for > goals_against THEN "W"
                    ELSE IF goals_for < goals_against THEN "L" ELSE "D",
         opponent |-> IF is_home THEN raw.away_id ELSE raw.home_id,
         goals_for |-> goals_for, goals_against |-> goals_against]

\* the form list built from data["matches"][:5]
ParseForm(matches, team_id) ==
    LET first5 == SubSeq(matches, 1, Min(5, Len(matches)))
        played == SelectSeq(first5,
                      LAMBDA raw : raw.home_goals # None /\ raw.away_goals # None)
    IN  [i \in 1..Len(played) |-> FormMatch(played[i], team_id)]

\* fetch_team_form_cached without its except clause
fetch_team_form_cached_NoExcept(res, team_id) ==
    [raised |-> res.raised,
     form_data |-> IF res.raised THEN <<>>
                   ELSE ParseForm(RawMatches(res.body, team_id), team_id)]

\* the body of fetch_team_form_cached after the sleep, given what api_request
\* did: the form list, or the empty list when api_request raised; it does
\* not raise itself
fetch_team_form_cached(res, team_id) ==
    [raised |-> FALSE,
     form_data |-> IF res.raised THEN <<>>
                   ELSE ParseForm(RawMatches(res.body, team_id), team_id)]

\* ------------------------------------------------------ compute_team_form
\* fetch_team_form_cached(team_id) under @st.cache_data(ttl=6000) and the
\* assignment team.form = [FormMatch(**fm) for fm in form_data]; a return
\* value is stored, also the empty list of a failed lookup
form_iter(team_id, k) ==
    IF cache[k].live
    THEN /\ call' = [NoCall EXCEPT !.key = k, !.hit = TRUE, !.out = cache[k].val]
         /\ form' = [form EXCEPT ![team_id] = cache[k].val]
         /\ pass' = [pass EXCEPT ![team_id] = cache[k].body]
         /\ UNCHANGED <<sent, cache, elapsed, faults>>
    ELSE \E a \in Answers :
           LET res == api_request(a[1], a[2])
               ret == fetch_team_form_cached(res, team_id)
           IN  /\ HasRoom(REQUEST_DELAY, res, CountFaults(a[1], a[2]))
               /\ sent' = Record(sent, REQUEST_DELAY, res)
               /\ cache' = [AgeCache(cache, REQUEST_DELAY + res.backoff) EXCEPT
                              ![k] = IF ret.raised THEN NoEntry
                                     ELSE Entry(ret.form_data, res.body)]
               /\ elapsed' = elapsed + REQUEST_DELAY + res.backoff
               /\ faults' = CountFaults(a[1], a[2])
               /\ call' = [NoCall EXCEPT
                             !.key = k, !.sends = res.sends,
                             !.slept = REQUEST_DELAY + res.backoff,
                             !.backoff = res.backoff,
                             !.raised = ret.raised,
                             !.api_raised = res.raised,
                             !.out = ret.form_data,
                             !.first = a[1], !.second = a[2]]
               /\ form' = IF ret.raised THEN form
                          ELSE [form EXCEPT ![team_id] = ret.form_data]
               /\ pass' = [pass EXCEPT ![team_id] = res.body]

\* compute_team_form is called with the teams of this run's standings, when
\* "Form laden" is checked
compute_team_form_begin ==
    /\ pc = "sidebar"
    /\ pc' = "form"
    /\ formPos' = 1
    /\ form' = [t \in Teams |-> <<>>]
    /\ pass' = [t \in Teams |-> Pending]
    /\ UNCHANGED <<upstream, sent, cache, elapsed, call, prev, faults>>
    /\ UNCHANGED <<matchVars, fixVars>>

\* one iteration of the loop over the teams; after the last one
\* compute_team_form returns; an exception would end the run
compute_team_form_iter ==
    /\ pc = "form"
    /\ form_iter(formPos, FormKey(formPos))
    /\ prev' = [prev EXCEPT ![FormKey(formPos)] = Summary(call')]
    /\ formPos' = IF call'.raised \/ formPos = NumTeams THEN 0 ELSE formPos + 1
    /\ pc' = IF call'.raised THEN "standings"
             ELSE IF formPos = NumTeams THEN "matches" ELSE "form"
    /\ UNCHANGED upstream
    /\ UNCHANGED <<matchVars, fixVars>>

\* ------------------------------------------------- the user and the clock
\* the "Cache leeren" button: st.cache_data.clear() and st.rerun()
ClearCache ==
    /\ pc = "sidebar"
    /\ pc' = "standings"
    /\ cache' = [k \in Keys |-> NoEntry]
    /\ call' = NoCall
    /\ prev' = [k \in Keys |-> NoPrev]
    /\ UNCHANGED <<upstream, sent, elapsed, formPos, pass, form, faults>>
    /\ UNCHANGED <<matchVars, fixVars>>

\* a minute passes between two runs of the script
Tick ==
    /\ pc = "standings"
    /\ elapsed + RATE_WINDOW <= MaxElapsed
    /\ sent' = AgeSent(sent, RATE_WINDOW)
    /\ cache' = AgeCache(cache, RATE_WINDOW)
    /\ elapsed' = elapsed + RATE_WINDOW
    /\ UNCHANGED <<pc, upstream, call, prev, formPos, pass, form, faults>>
    /\ UNCHANGED <<matchVars, fixVars>>

\* the time-to-live passes between two runs of the script
LongIdle ==
    /\ pc = "standings"
    /\ elapsed > 0
    /\ sent' = AgeSent(sent, CACHE_TTL)
    /\ cache' = AgeCache(cache, CACHE_TTL)
    /\ call' = NoCall
    /\ prev' = [k \in Keys |-> NoPrev]
    /\ elapsed' = 0
    /\ UNCHANGED <<pc, upstream, formPos, pass, form, faults>>
    /\ UNCHANGED <<matchVars, fixVars>>

\* a matchday is played: the API serves new standings, fixtures and results
UpstreamUpdate ==
    /\ pc = "standings"
    /\ upstream < NumBodies
    /\ upstream' = upstream + 1
    /\ UNCHANGED <<pc, sent, cache, elapsed, call, prev, formPos, pass, form, faults>>
    /\ UNCHANGED <<matchVars, fixVars>>

NetIdle ==
    /\ pc = "standings"
    /\ upstream = 1
    /\ sent = <<>>
    /\ cache = [k \in Keys |-> NoEntry]
    /\ elapsed = 0
    /\ call = NoCall
    /\ prev = [k \in Keys |-> NoPrev]
    /\ formPos = 0
    /\ pass = [t \in Teams |-> Pending]
    /\ form = [t \in Teams |-> <<>>]
    /\ faults = 0

\* no standings or fixtures fetched
FixIdle ==
    /\ stage = "idle"
    /\ league_size = 0
    /\ table = <<>>
    /\ teams = <<>>
    /\ matches_data = <<>>
    /\ fixtures = <<>>

\* ------------------------------------------- the scoring/label state machine
\* A Match between two teams of one standings table of n teams.
NewMatch(n, hp, hpts, ap, apts, fin, hs, as) ==
    [home |-> Team(hp, hpts, n), away |-> Team(ap, apts, n),
     is_finished |-> fin, home_score |-> hs, away_score |-> as]

NoResult == "none"

\* Every league size 1..MaxTeams, every pair of positions of that league,
\* every points difference -MaxPoints..MaxPoints (the away team at either end
\* of the range), finished or not, every stored score.
MatchInit ==
    /\ \E n \in 1..MaxTeams : \E hp \in 1..n, ap \in 1..n :
       \E hpts \in 0..MaxPoints, apts \in {0, MaxPoints} :
       \E fin \in BOOLEAN, hs \in 0..MaxGoals, as \in 0..MaxGoals :
          match = NewMatch(n, hp, hpts, ap, apts, fin, hs, as)
    /\ requested = NoResult
    /\ buzzOut = NoResult
    /\ labelsOut = <<>>
    /\ raised = NoResult
    /\ NetIdle
    /\ FixIdle

\* evaluation of the property Match.buzz
GetBuzz ==
    /\ requested = NoResult
    /\ requested' = "buzz"
    /\ IF buzz(match) = ZeroDivisionError
       THEN raised' = ZeroDivisionError /\ buzzOut' = NoResult
       ELSE raised' = NoResult /\ buzzOut' = buzz(match)
    /\ UNCHANGED <<match, labelsOut>>
    /\ UNCHANGED <<netVars, fixVars>>

\* evaluation of the property Match.labels
GetLabels ==
    /\ requested = NoResult
    /\ requested' = "labels"
    /\ labelsOut' = labels(match)
    /\ UNCHANGED <<match, buzzOut, raised>>
    /\ UNCHANGED <<netVars, fixVars>>

MatchNext == GetBuzz \/ GetLabels

SpecMatch == MatchInit /\ [][MatchNext]_vars

\* ------------------------------------------ the standings/fixtures machine
\* One row of the upstream standings table.
StandingsEntry(team_id, position, points) ==
    [id |-> team_id, position |-> position, points |-> points]

\* The upstream tables: rows teams with ids 1..rows at positions 1..rows,
\* neighbours step points apart.
Tables ==
    {[i \in 1..rows |-> StandingsEntry(i, i, step * (rows - i))] :
        rows \in 1..MaxRows, step \in 0..MaxStep}

FINISHED == "FINISHED"
TIMED == "TIMED"

\* One fixture of the upstream matchday answer; home and away are the
\* full-time score, None before the match is played.
RawFixture(home_id, away_id, status, home, away) ==
    [home_id |-> home_id, away_id |-> away_id, status |-> status,
     home |-> home, away |-> away]

\* Fixtures between any two ids, one of them (MaxRows + 1) never in a table,
\* scheduled or finished.
RawFixtures ==
    {RawFixture(h, a, TIMED, None, None) :
        h \in 1..(MaxRows + 1), a \in 1..(MaxRows + 1)} \cup
    {RawFixture(h, a, FINISHED, MaxGoals, 0) :
        h \in 1..(MaxRows + 1), a \in 1..(MaxRows + 1)}

\* no team plays itself
Playable == {f \in RawFixtures : f.home_id # f.away_id}

\* x or 0
OrZero(x) == IF x = None \/ x = 0 THEN 0 ELSE x

\* the Match appended for one fixture whose teams are both in the standings
MatchOf(m, t) ==
    LET is_finished == m.status = FINISHED
    IN  [home |-> t[m.home_id], away |-> t[m.away_id],
         is_finished |-> is_finished,
         home_score |-> IF is_finished THEN OrZero(m.home) ELSE 0,
         away_score |-> IF is_finished THEN OrZero(m.away) ELSE 0]

\* the loop over the fixtures, skipping those of a team not in the standings
RECURSIVE BuildMatches(_, _)
BuildMatches(data, t) ==
    IF data = <<>>
    THEN <<>>
    ELSE LET m == Head(data)
             rest == BuildMatches(Tail(data), t)
         IN  IF m.home_id \notin DOMAIN t \/ m.away_id \notin DOMAIN t
             THEN rest
             ELSE <<MatchOf(m, t)>> \o rest

\* a >= b for two fractions of positive denominator
FracGE(a, b) == a[1] * b[2] >= b[1] * a[2]

\* the lower score first
ranks_before_Ascending(x, y) == FracGE(buzz(y), buzz(x))

\* key=lambda x: x.buzz, reverse=True: x stays ahead of y
ranks_before(x, y) == FracGE(buzz(x), buzz(y))

\* x placed behind every match of the sorted list s that stays ahead of it
RECURSIVE Insert(_, _)
Insert(x, s) ==
    IF s = <<>>
    THEN <<x>>
    ELSE IF ranks_before(Head(s), x)
         THEN <<Head(s)>> \o Insert(x, Tail(s))
         ELSE <<x>> \o s

\* sorted(): stable, equal keys keep the order of the input
RECURSIVE sorted(_)
sorted(s) ==
    IF s = <<>>
    THEN <<>>
    ELSE Insert(s[Len(s)], sorted(SubSeq(s, 1, Len(s) - 1)))

\* Every configured league size against every upstream table.
FixturesInit ==
    /\ stage = "config"
    /\ league_size \in 1..MaxLeague
    /\ table \in Tables
    /\ teams = <<>>
    /\ matches_data = <<>>
    /\ fixtures = <<>>
    /\ NetIdle
    /\ match = NewMatch(2, 1, 0, 2, 0, FALSE, 0, 0)
    /\ requested = NoResult
    /\ buzzOut = NoResult
    /\ labelsOut = <<>>
    /\ raised = NoResult

\* teams = fetch_standings(competition, num_teams): a later row of an id
\* replaces an earlier one
fetch_standings ==
    /\ stage = "config"
    /\ stage' = "standings"
    /\ teams' = [team_id \in {table[i].id : i \in DOMAIN table} |->
                    LET i == CHOOSE i \in DOMAIN table :
                                 /\ table[i].id = team_id
                                 /\ \A j \in DOMAIN table :
                                       table[j].id = team_id => j <= i
                    IN  Team(table[i].position, table[i].points, league_size)]
    /\ UNCHANGED <<league_size, table, matches_data, fixtures>>
    /\ UNCHANGED <<matchVars, netVars>>

\* matches = fetch_matches(competition, matchday, teams) on the upstream
\* answer data; the sort evaluates the key of every match first
fetch_matches ==
    /\ stage = "standings"
    /\ \E n \in 0..MaxFixtures : \E data \in [1..n -> Playable] :
          /\ matches_data' = data
          /\ LET matches == BuildMatches(data, teams)
             IN  IF \E i \in DOMAIN matches : buzz(matches[i]) = ZeroDivisionError
                 THEN stage' = ZeroDivisionError /\ fixtures' = <<>>
                 ELSE stage' = "matches" /\ fixtures' = sorted(matches)
    /\ UNCHANGED <<league_size, table, teams>>
    /\ UNCHANGED <<matchVars, netVars>>

FixturesNext ==
    \/ fetch_standings
    \/ fetch_matches

SpecFixtures == FixturesInit /\ [][FixturesNext]_vars

\* ------------------------------------- properties of standings and fixtures
\* fetch_matches has returned its list
MatchesDone == stage = "matches"

\* C11: the list fetch_matches returns holds every fixture of two known teams
\* and is sorted by descending buzz score: every match has a score greater
\* than or equal to that of every match after it.
C11_SortedByBuzz ==
    MatchesDone =>
        /\ Len(fixtures) = Len(BuildMatches(matches_data, teams))
        /\ \A i \in DOMAIN fixtures : \A j \in DOMAIN fixtures :
              i < j => FracGE(buzz(fixtures[i]), buzz(fixtures[j]))

\* three fixtures answered in ascending order of score come back reversed
C11_Witness ==
    /\ MatchesDone
    /\ Len(fixtures) = MaxFixtures
    /\ LET matches == BuildMatches(matches_data, teams)
       IN  /\ Len(matches) = MaxFixtures
           /\ \A i \in 1..(MaxFixtures - 1) :
                 ~FracGE(buzz(matches[i]), buzz(matches[i + 1]))
           /\ \A i \in 1..MaxFixtures :
                 fixtures[i] = matches[MaxFixtures + 1 - i]

\* fetch_standings has returned its dict
StandingsDone == stage \notin {"idle", "config"}

\* C12: every Team record fetch_standings produces, for any upstream table
\* and any configured league size, has 1 <= position <= num_teams and
\* points >= 0.
C12_TeamInvariant ==
    StandingsDone =>
        \A team_id \in DOMAIN teams :
            /\ 1 <= teams[team_id].position
            /\ teams[team_id].position <= teams[team_id].num_teams
            /\ teams[team_id].points >= 0

\* ------------------------------------------ the data acquisition machine
Init ==
    /\ NetIdle
    /\ FixIdle
    /\ match = NewMatch(2, 1, 0, 2, 0, FALSE, 0, 0)
    /\ requested = NoResult
    /\ buzzOut = NoResult
    /\ labelsOut = <<>>
    /\ raised = NoResult

Next ==
    \/ fetch_standings_cached
    \/ fetch_current_matchday
    \/ \E matchday \in 1..MaxMatchday : fetch_matches_cached(matchday)
    \/ compute_team_form_begin
    \/ compute_team_form_iter
    \/ ClearCache
    \/ Tick
    \/ LongIdle
    \/ UpstreamUpdate

Spec == Init /\ [][Next]_vars

\* ------------------------------------- properties of the data acquisition
\* C1: the number of outbound requests sent inside any rolling 60-second
\* window never exceeds the ceiling of 10 (sent holds the requests of the
\* window that ends now).
C1_RateCeiling == Len(sent) <= RATE_CEILING

\* the step is a call of the cached function with parameter signature k
Calls(k) ==
    \/ k = StandingsKey /\ fetch_standings_cached
    \/ k = MatchdayKey /\ fetch_current_matchday
    \/ \E matchday \in 1..MaxMatchday :
          k = MatchesKey(matchday) /\ fetch_matches_cached(matchday)
    \/ k = FormKey(formPos) /\ compute_team_form_iter

C3_BoundedRetry ==
    /\ call.sends <= 2
    /\ (call.first.exc = "none" /\ call.first.status = 429) =>
          /\ call.sends = 2
          /\ call.second # NoResponse
          /\ call.backoff = 2 * (IF call.first.reset = NoHeader THEN 60
                                 ELSE call.first.reset)
          /\ (IsFault(call.second) => call.api_raised)
          /\ (~IsFault(call.second) => ~call.api_raised)
    /\ (call.first # NoResponse /\ ~(call.first.exc = "none" /\ call.first.status = 429)) =>
          /\ call.sends = 1
          /\ call.second = NoResponse
          /\ call.api_raised = IsFault(call.first)

C3_Witness ==
    /\ call.first.status = 429
    /\ call.first.reset = 13
    /\ call.second.status = 429
    /\ call.sends = 2
    /\ call.backoff = 26
    /\ call.api_raised

\* C4: when exactly one team's form lookup fails in compute_team_form, it
\* does not raise, the failing team has the empty form, and every other
\* team's form is the form built from its own lookup.
FailedTeams == { t \in Teams : pass[t] = 0 }
PassDone == pc = "matches" /\ \A t \in Teams : pass[t] # Pending

C4_PartialFailure ==
    /\ call.key[1] = "form" => ~call.raised
    /\ (PassDone /\ Cardinality(FailedTeams) = 1) =>
          \A t \in Teams :
             IF t \in FailedTeams
             THEN form[t] = <<>>
             ELSE /\ form[t] = ParseForm(RawMatches(pass[t], t), t)
                  /\ form[t] # <<>>

C4_Witness ==
    /\ PassDone
    /\ FailedTeams = {2}
    /\ form[2] = <<>>
    /\ form[1] # <<>> /\ form[3] # <<>>
    /\ form[1] # form[3]

\* C13: a failed form lookup is memoized like a success: after
\* fetch_team_form_cached(team_id) has failed and returned the empty form, a
\* later lookup for the same team within the time-to-live and before a cache
\* clear returns the same empty form and sends no request, whatever the
\* upstream would answer now.
C13_FailureMemoized ==
    [][\A t \in Teams :
          (/\ formPos = t
           /\ compute_team_form_iter
           /\ prev[FormKey(t)].done
           /\ prev[FormKey(t)].out = <<>>) =>
              /\ call'.hit
              /\ call'.out = <<>>
              /\ call'.sends = 0
              /\ sent' = sent
              /\ form'[t] = <<>>
              /\ pass'[t] = 0
              /\ cache'[FormKey(t)] = cache[FormKey(t)]]_vars

C13_Witness ==
    /\ call.key = FormKey(1)
    /\ call.hit
    /\ call.out = <<>>
    /\ pass[1] = 0
    /\ form[1] = <<>>
    /\ cache[FormKey(1)].live /\ cache[FormKey(1)].body = 0
    /\ faults < MaxFaults

\* ------------------------------------------------------------ properties
Range(q) == { q[i] : i \in 1..Len(q) }

BuzzDone == requested = "buzz"
LabelsDone == requested = "labels"
ValidLeague == num_teams(match) >= 2

\* C5: for every league size num_teams >= 2 and every pair of positions in
\* 1..num_teams the buzz score lies in [0, 100], raw never exceeds
\* max_raw = 4 * (num_teams - 1), and the score is exactly 100 when both
\* positions are 1.
C5_BuzzInRange ==
    (BuzzDone /\ ValidLeague) =>
        /\ raised = NoResult
        /\ buzzOut # NoResult
        /\ buzzOut[2] > 0
        /\ 0 <= buzzOut[1]
        /\ buzzOut[1] <= 100 * buzzOut[2]
        /\ buzz_raw(match)[1] <= 4 * (num_teams(match) - 1) * buzz_raw(match)[2]
        /\ (match.home.position = 1 /\ match.away.position = 1
               => buzzOut[1] = 100 * buzzOut[2])

C5_Witness ==
    /\ BuzzDone /\ ValidLeague
    /\ match.home.position = 1 /\ match.away.position = 1
    /\ buzzOut # NoResult
    /\ buzzOut[1] = 100 * buzzOut[2]

\* C6: a buzz score requested for a league of one team fails with the
\* dedicated InvalidLeagueSize error, never with a division by zero.
C6_InvalidLeagueSize ==
    (BuzzDone /\ num_teams(match) = 1) => raised = "InvalidLeagueSize"

\* C7 (as stated): Title Race is present iff the better position is at most
\* TITLE_RACE_MAX_POS and the position distance at most CLOSE_MATCH_DISTANCE.
C7_Original ==
    LabelsDone =>
        (TITLE \in Range(labelsOut)
           <=> /\ Min(match.home.position, match.away.position) <= TITLE_RACE_MAX_POS
               /\ Abs(match.home.position - match.away.position) <= CLOSE_MATCH_DISTANCE)

\* C7 (amended): Title Race is present iff the worse of the two positions,
\* max(home.position, away.position), is at most TITLE_RACE_MAX_POS (8) and
\* the position distance is at most CLOSE_MATCH_DISTANCE (5); positions 5
\* and 10 do not carry the label.
C7_TitleRace ==
    LabelsDone =>
        /\ TITLE \in Range(labelsOut)
             <=> /\ Max(match.home.position, match.away.position) <= 8
                 /\ Abs(match.home.position - match.away.position) <= 5
        /\ ({match.home.position, match.away.position} = {5, 10}
               => TITLE \notin Range(labelsOut))

C7_Witness ==
    /\ LabelsDone
    /\ match.home.position = 3 /\ match.away.position = 8
    /\ TITLE \in Range(labelsOut)

\* C8 (as stated): Relegation Battle is present iff the worse position is at
\* least the relegation threshold 13 + (num_teams - 18) and the position
\* distance is at most CLOSE_MATCH_DISTANCE.
C8_Original ==
    LabelsDone =>
        (RELEGATION \in Range(labelsOut)
           <=> /\ Max(match.home.position, match.away.position)
                     >= 13 + (num_teams(match) - 18)
               /\ Abs(match.home.position - match.away.position) <= CLOSE_MATCH_DISTANCE)

\* C8 (amended): Relegation Battle is present iff the better of the two
\* positions, min(home.position, away.position), is at least the threshold
\* 13 + (num_teams - 18) (13 for 18 teams, 15 for 20 teams) and the position
\* distance is at most CLOSE_MATCH_DISTANCE (5).
C8_RelegationBattle ==
    LabelsDone =>
        /\ RELEGATION \in Range(labelsOut)
             <=> /\ Min(match.home.position, match.away.position)
                       >= 13 + (num_teams(match) - 18)
                 /\ Abs(match.home.position - match.away.position) <= 5
        /\ (num_teams(match) = 18 => relegation_min_pos(match) = 13)
        /\ (num_teams(match) = 20 => relegation_min_pos(match) = 15)

C8_Witness ==
    /\ LabelsDone
    /\ num_teams(match) = 20
    /\ match.home.position = 15 /\ match.away.position = 20
    /\ RELEGATION \in Range(labelsOut)

\* C9: the upset realized label (TITAN SLAYED) is present iff the match is
\* finished, the position distance is at least UPSET_DISTANCE (10) and the
\* team with the larger position scored strictly more than the team with the
\* smaller position; never for an unfinished match or a drawn score.
C9_UpsetRealized ==
    LabelsDone =>
        LET hp == match.home.position
            ap == match.away.position
            worseScore == IF hp > ap THEN match.home_score ELSE match.away_score
            betterScore == IF hp > ap THEN match.away_score ELSE match.home_score
        IN  /\ TITAN \in Range(labelsOut)
                 <=> /\ match.is_finished
                     /\ Abs(hp - ap) >= 10
                     /\ worseScore > betterScore
            /\ (~match.is_finished => TITAN \notin Range(labelsOut))
            /\ (match.home_score = match.away_score => TITAN \notin Range(labelsOut))

C9_Witness ==
    /\ LabelsDone
    /\ match.is_finished
    /\ match.home.position = 1 /\ match.away.position = 11
    /\ match.home_score = 0 /\ match.away_score = 1
    /\ TITAN \in Range(labelsOut)

\* ---- C10
AllLabels == {TITAN, TITLE, RELEGATION, H2H, UPSET}
LabelPairs == { p \in SUBSET AllLabels : Cardinality(p) = 2 }

\* valid matches of a league of n teams, with points equal or MaxPoints apart
SampleMatches(n) ==
    { NewMatch(n, hp, 0, ap, apts, fin, hs, as) :
        hp \in 1..n, ap \in 1..n, apts \in {0, MaxPoints},
        fin \in BOOLEAN, hs \in 0..1, as \in 0..1 }

\* the label sets of the sample matches of every league size
SampleLabelSets ==
    UNION { { Range(labels(m)) : m \in SampleMatches(n) } : n \in 1..MaxTeams }

CoOccur(pair) == \E ls \in SampleLabelSets : pair \subseteq ls

\* C10 (as stated): every pair of the five labels occurs together on some
\* valid match (here: of the league of the match at hand), and so do all five.
C10_Original ==
    LabelsDone =>
        /\ Len(labelsOut) <= 5
        /\ \A pair \in LabelPairs :
              \E m \in SampleMatches(num_teams(match)) : pair \subseteq Range(labels(m))
        /\ \E m \in SampleMatches(num_teams(match)) : AllLabels = Range(labels(m))

ExclusivePairs ==
    { {TITLE, UPSET}, {TITLE, TITAN}, {RELEGATION, UPSET}, {RELEGATION, TITAN} }

\* C10 (amended): a match carries zero to three labels; Title Race and
\* Relegation Battle (distance <= 5) each exclude Upset Potential and upset
\* realized (distance >= 10), and exclude each other in leagues of 14 or
\* more teams; each of the other six pairs occurs together on some valid
\* match.
C10_LabelsCoexist ==
    /\ LabelsDone =>
         /\ Len(labelsOut) <= 3
         /\ \A pair \in ExclusivePairs : ~(pair \subseteq Range(labelsOut))
         /\ (num_teams(match) >= 14 => ~({TITLE, RELEGATION} \subseteq Range(labelsOut)))
    /\ \A pair \in LabelPairs \ ExclusivePairs : CoOccur(pair)

C10_Witness ==
    /\ LabelsDone
    /\ labelsOut = <<TITAN, H2H, UPSET>>
====
